---------------------------- MODULE Spec2Model ----------------------------
(***************************************************************************)
(* Model of the Sorteador widget (src/src/App.tsx): the React state of     *)
(* App, its event handlers, the delayed callback of a local draw and the   *)
(* continuation of an AI draw after the awaited call.                      *)
(***************************************************************************)
EXTENDS Integers, Sequences, FiniteSets, TLC

VARIABLES
    activeTab,       \* useState 'draw' | 'ai'
    numbers,         \* useState number[]: the displayed numbers
    history,         \* useState DrawResult[]: newest first
    isDrawing,       \* useState boolean
    count,           \* useState number
    showHistory,     \* useState boolean
    aiPrediction,    \* useState AIPrediction | null
    isGeneratingAI,  \* useState boolean
    aiError,         \* useState string | null
    timers,          \* pending setTimeout callbacks, in firing order
    requests,        \* generateContent calls awaited by generateAIPrediction
    log,             \* history variable: every result appended since the last clear
    sampler          \* the rejection loop of the callback, run step by step

vars == <<activeTab, numbers, history, isDrawing, count, showHistory,
          aiPrediction, isGeneratingAI, aiError, timers, requests, log, sampler>>

appVars == <<activeTab, numbers, history, isDrawing, count, showHistory,
             aiPrediction, isGeneratingAI, aiError, timers, requests, log>>

----------------------------------------------------------------------------
(* Program constants *)

RangeSize == 60        \* Math.random() * 60
HistoryCap == 10       \* .slice(0, 10)
MinCount == 6          \* [6, 7, 8, 9, 10].map
MaxCount == 10
InitialCount == 6      \* useState(6)

Counts == MinCount..MaxCount

\* the count buttons pressed in Spec: the least and the greatest
CountChoices == {MinCount, MaxCount}

(* Bounds of the model *)

MaxSeed == 2           \* generator states a callback of Spec may start from
SamplerSeeds == 64     \* generator states SamplerSpec starts from
MaxDraws == 2          \* draws settled or in flight since the last clear, Spec
LedgerDraws == 11      \* the same, LedgerSpec
FairDraws == 3         \* the same, FairSpec
MaxRepeats == 3        \* rejected candidates counted by the sampler's specifications

----------------------------------------------------------------------------
(* Sequences *)

Range(s) == {s[i] : i \in 1..Len(s)}

Take(s, n) == SubSeq(s, 1, IF Len(s) < n THEN Len(s) ELSE n)

RemoveAt(s, i) == SubSeq(s, 1, i - 1) \o SubSeq(s, i + 1, Len(s))

IsAscending(s) == \A i \in 1..(Len(s) - 1) : s[i] <= s[i + 1]

IsDistinct(s) == \A i, j \in 1..Len(s) : i # j => s[i] # s[j]

Occurrences(s, x) == Cardinality({i \in 1..Len(s) : s[i] = x})

SameElements(s, t) ==
    /\ Len(s) = Len(t)
    /\ \A x \in Range(s) \cup Range(t) : Occurrences(s, x) = Occurrences(t, x)

----------------------------------------------------------------------------
(* Math.random: a generator whose state is unknown when a callback starts. *)

RandModulus == 128
RandMult == 5
RandInc == 43

NextRandom(x) == (RandMult * x + RandInc) % RandModulus

\* Math.floor(Math.random() * 60) + 1, with Math.random() = x / RandModulus
Candidate(x) == ((x * RangeSize) \div RandModulus) + 1

----------------------------------------------------------------------------
(* The sampler: lines 42-49 *)

\* if (!drawn.includes(num)) drawn.push(num)
LoopStepNoCheck(drawn, num) == Append(drawn, num)

LoopStepInverted(drawn, num) ==
    IF num \in Range(drawn) THEN Append(drawn, num) ELSE drawn

LoopStep(drawn, num) ==
    IF num \in Range(drawn) THEN drawn ELSE Append(drawn, num)

\* drawn.sort((a, b) => a - b)
InsertSorted(t, x) ==
    SelectSeq(t, LAMBDA y : y <= x) \o <<x>> \o SelectSeq(t, LAMBDA y : y > x)

RECURSIVE SortAsc(_)
SortAscNone(s) == s

\* (each intermediate value is bound once, by membership in a singleton)
SortAsc(s) ==
    IF s = <<>> THEN <<>>
    ELSE CHOOSE r \in {InsertSorted(t, s[Len(s)]) :
                          t \in {SortAsc(p) : p \in {SubSeq(s, 1, Len(s) - 1)}}} : TRUE

\* while (drawn.length < count) { ... }, from generator state x
RECURSIVE SampleLoop(_, _, _)
SampleLoop(drawn, c, x) ==
    IF Len(drawn) < c
    THEN CHOOSE r \in {SampleLoop(d, c, n) :
                          d \in {LoopStep(drawn, Candidate(NextRandom(x)))},
                          n \in {NextRandom(x)}} : TRUE
    ELSE drawn

Sample(c, seed) == SampleLoop(<<>>, c, seed)

----------------------------------------------------------------------------
(* The history ledger: line 59 and line 109 *)

AppendResultNoSlice(h, e) == <<e>> \o h

\* [newResult, ...prev].slice(0, 10)
AppendResult(h, e) == Take(<<e>> \o h, HistoryCap)

DrawResult(ns, type) == [numbers |-> ns, type |-> type]

\* what the log remembers of an append: the entry, the count the draw was
\* requested with, the numbers as produced, before sorting, and the count
\* selected when the result arrived
LogEntry(ns, type, c, raw) ==
    [numbers |-> ns, type |-> type, requested |-> c, raw |-> raw,
     selected |-> count]

Entries(l) == [i \in 1..Len(l) |-> DrawResult(l[i].numbers, l[i].type)]

InFlight == Len(timers) + Len(requests)

\* a scheduled callback and an awaited call: the count the closure holds, and
\* whether a tab button was clicked since it was started (a history field)
Scheduled(c) == [count |-> c, reset |-> FALSE]

Awaited(c, reply) == [count |-> c, reset |-> FALSE, reply |-> reply]

MarkReset(s) == [i \in 1..Len(s) |-> [s[i] EXCEPT !.reset = TRUE]]


----------------------------------------------------------------------------
(* Values of the React state *)

NoPrediction == [present |-> FALSE, numbers |-> <<>>, reasoning |-> ""]

Prediction(ns, why) == [present |-> TRUE, numbers |-> ns, reasoning |-> why]

NoError == "null"

ErrorMessage == "Nao foi possivel conectar com a inteligencia mistica. Tente novamente."

----------------------------------------------------------------------------
(* The awaited generateContent call: lines 70-94.  A call is pending, or   *)
(* it has rejected, or it has fulfilled with a response whose text is      *)
(* empty, is no JSON, or is a JSON document.                               *)

NoNumbers == [kind |-> "absent", items |-> <<>>]

ScalarNumbers == [kind |-> "scalar", items |-> <<>>]

ArrayOf(items) == [kind |-> "array", items |-> items]

Text(kind, ns, why) == [kind |-> kind, numbers |-> ns, reasoning |-> why]

EmptyText == Text("empty", NoNumbers, "")

MalformedText == Text("malformed", NoNumbers, "")

NullText == Text("null", NoNumbers, "")

ObjectText(ns, why) == Text("object", ns, why)

Pending == [status |-> "pending", text |-> EmptyText]

Rejected == [status |-> "rejected", text |-> EmptyText]

Fulfilled(text) == [status |-> "fulfilled", text |-> text]

\* number lists a Predictor may answer a request for c numbers with
Lucky == <<7, 2, 9, 15, 3, 41, 60, 1, 33, 10>>

GoodNumbers(c) == Take(Lucky, c)

DuplicateNumbers == <<4, 4, 5, 6, 7, 8>>

OutOfRangeNumbers == <<61, 2, 0, 15, 3, 41>>

ShortNumbers(c) == Take(Lucky, c - 1)

GoodReplies(c) == {Fulfilled(ObjectText(ArrayOf(GoodNumbers(c)), "lucky"))}

InvalidReplies(c) ==
    {Fulfilled(ObjectText(ArrayOf(ns), "x")) :
        ns \in {DuplicateNumbers, OutOfRangeNumbers, ShortNumbers(c), <<>>}}

FailedReplies ==
    {Rejected, Fulfilled(EmptyText), Fulfilled(MalformedText), Fulfilled(NullText),
     Fulfilled(ObjectText(NoNumbers, "x")), Fulfilled(ObjectText(ScalarNumbers, "x"))}

ReplyClasses == {"good", "invalid", "failed"}

Replies(c, classes) ==
    (IF "good" \in classes THEN GoodReplies(c) ELSE {})
    \cup (IF "invalid" \in classes THEN InvalidReplies(c) ELSE {})
    \cup (IF "failed" \in classes THEN FailedReplies ELSE {})

\* JSON.parse(response.text || '{}')
JSONParse(text) ==
    LET t == IF text.kind = "empty" THEN ObjectText(NoNumbers, "") ELSE text
    IN  [threw |-> t.kind = "malformed",
         isNull |-> t.kind = "null",
         numbers |-> t.numbers,
         reasoning |-> t.reasoning]

\* result.numbers && Array.isArray(result.numbers), reading result.numbers of
\* null throws
HasNumbersArrayAny(result) == ~result.isNull

HasNumbersArray(result) == ~result.isNull /\ result.numbers.kind = "array"

\* the try block reaches line 99 and does not throw
TrySucceeds(reply) ==
    /\ reply.status = "fulfilled"
    /\ ~JSONParse(reply.text).threw
    /\ HasNumbersArray(JSONParse(reply.text))

\* finally { setIsGeneratingAI(false) }: the flag after the try block ended
\* with or without a throw
FlagAfterTryUnlessThrown(succeeded) == ~succeeded

FlagAfterTry(succeeded) == FALSE

----------------------------------------------------------------------------
(* Initial state: the useState initial values, nothing scheduled *)

IdleSampler == [pc |-> "idle", count |-> 0, rng |-> 0, drawn |-> <<>>, iter |-> 0]

InitState(panelOpen) ==
    /\ activeTab = "draw"
    /\ numbers = <<>>
    /\ history = <<>>
    /\ isDrawing = FALSE
    /\ count = InitialCount
    /\ showHistory = panelOpen
    /\ aiPrediction = NoPrediction
    /\ isGeneratingAI = FALSE
    /\ aiError = NoError
    /\ timers = <<>>
    /\ requests = <<>>
    /\ log = <<>>

InitApp == InitState(FALSE)

Init == InitApp /\ sampler = IdleSampler

----------------------------------------------------------------------------
(* Event handlers *)

\* line 151
SetActiveTabDraw ==
    /\ activeTab' = "draw"
    /\ numbers' = <<>>
    /\ aiPrediction' = NoPrediction
    /\ timers' = MarkReset(timers)
    /\ requests' = MarkReset(requests)
    /\ UNCHANGED <<history, isDrawing, count, showHistory, isGeneratingAI,
                   aiError, log, sampler>>

\* line 160
SetActiveTabAI ==
    /\ activeTab' = "ai"
    /\ numbers' = <<>>
    /\ aiPrediction' = NoPrediction
    /\ timers' = MarkReset(timers)
    /\ requests' = MarkReset(requests)
    /\ UNCHANGED <<history, isDrawing, count, showHistory, isGeneratingAI,
                   aiError, log, sampler>>

\* line 185
SetCount(n) ==
    /\ count' = n
    /\ UNCHANGED <<activeTab, numbers, history, isDrawing, showHistory,
                   aiPrediction, isGeneratingAI, aiError, timers, requests, log,
                   sampler>>

\* line 136
ToggleHistory ==
    /\ showHistory' = ~showHistory
    /\ UNCHANGED <<activeTab, numbers, history, isDrawing, count, aiPrediction,
                   isGeneratingAI, aiError, timers, requests, log, sampler>>

\* the draw button is rendered on the draw tab, disabled={isDrawing}
DrawButtonEnabledAlways == activeTab = "draw"

DrawButtonEnabled == activeTab = "draw" /\ ~isDrawing

\* the AI button is rendered on the ai tab, disabled={isGeneratingAI}
AIButtonEnabled == activeTab = "ai" /\ ~isGeneratingAI

\* drawNumbers up to setTimeout: the callback closes over count
DrawNumbers(cap) ==
    /\ DrawButtonEnabled
    /\ Len(log) + InFlight < cap
    /\ isDrawing' = TRUE
    /\ aiPrediction' = NoPrediction
    /\ timers' = Append(timers, Scheduled(count))
    /\ UNCHANGED <<activeTab, numbers, history, count, showHistory,
                   isGeneratingAI, aiError, requests, log, sampler>>

\* the count the callback that runs next reads: the one of the render its
\* drawNumbers was created in (useCallback, [count])
CallbackCountCurrent == count

CallbackCount == Head(timers).count

\* the setTimeout callback, lines 41-61
TimeoutFires(seeds) ==
    /\ timers # <<>>
    /\ \E seed \in seeds, c \in {CallbackCount} :
          \E drawn \in {Sample(c, seed)} :
             \E sorted \in {SortAsc(drawn)} :
                /\ numbers' = sorted
                /\ history' = AppendResult(history, DrawResult(sorted, "manual"))
                /\ log' = <<LogEntry(sorted, "manual", c, drawn)>> \o log
    /\ isDrawing' = FALSE
    /\ timers' = Tail(timers)
    /\ UNCHANGED <<activeTab, count, showHistory, aiPrediction, isGeneratingAI,
                   aiError, requests, sampler>>

\* generateAIPrediction up to the await
GenerateAIPrediction(cap) ==
    /\ AIButtonEnabled
    /\ Len(log) + InFlight < cap
    /\ isGeneratingAI' = TRUE
    /\ aiError' = NoError
    /\ numbers' = <<>>
    /\ requests' = Append(requests, Awaited(count, Pending))
    /\ UNCHANGED <<activeTab, history, isDrawing, count, showHistory,
                   aiPrediction, timers, log, sampler>>

\* the Predictor settles an awaited call
PredictorResponds(classes) ==
    \E i \in 1..Len(requests) :
        /\ requests[i].reply = Pending
        /\ \E r \in Replies(requests[i].count, classes) :
              requests' = [requests EXCEPT ![i].reply = r]
        /\ UNCHANGED <<activeTab, numbers, history, isDrawing, count,
                       showHistory, aiPrediction, isGeneratingAI, aiError,
                       timers, log, sampler>>

\* generateAIPrediction after the await: lines 96-118
AIContinuation ==
    \E i \in 1..Len(requests) :
      \E req \in {requests[i]} :
        \E result \in {JSONParse(req.reply.text)} :
          \E sorted \in {SortAsc(result.numbers.items)} :
            /\ req.reply # Pending
            /\ IF TrySucceeds(req.reply)
               THEN /\ aiPrediction' = Prediction(sorted, result.reasoning)
                    /\ numbers' = sorted
                    /\ history' = AppendResult(history, DrawResult(sorted, "ai"))
                    /\ log' = <<LogEntry(sorted, "ai", req.count,
                                         result.numbers.items)>> \o log
                    /\ UNCHANGED aiError
               ELSE /\ aiError' = ErrorMessage
                    /\ UNCHANGED <<aiPrediction, numbers, history, log>>
            /\ isGeneratingAI' = FlagAfterTry(TrySucceeds(req.reply))
            /\ requests' = RemoveAt(requests, i)
            /\ UNCHANGED <<activeTab, isDrawing, count, showHistory, timers,
                           sampler>>

\* clearHistory, line 122; its button is rendered in the open panel of a
\* non-empty history
ClearHistoryAndResult ==
    /\ showHistory
    /\ Len(history) > 0
    /\ history' = <<>>
    /\ log' = <<>>
    /\ numbers' = <<>>
    /\ UNCHANGED <<activeTab, isDrawing, count, showHistory, aiPrediction,
                   isGeneratingAI, aiError, timers, requests, sampler>>

ClearHistory ==
    /\ showHistory
    /\ Len(history) > 0
    /\ history' = <<>>
    /\ log' = <<>>
    /\ UNCHANGED <<activeTab, numbers, isDrawing, count, showHistory,
                   aiPrediction, isGeneratingAI, aiError, timers, requests,
                   sampler>>

----------------------------------------------------------------------------
(* Specification of the widget *)

Seeds == 0..(MaxSeed - 1)

Next ==
    \/ SetActiveTabDraw
    \/ SetActiveTabAI
    \/ \E n \in CountChoices : SetCount(n)
    \/ ToggleHistory
    \/ DrawNumbers(MaxDraws)
    \/ TimeoutFires(Seeds)
    \/ GenerateAIPrediction(MaxDraws)
    \/ PredictorResponds(ReplyClasses)
    \/ AIContinuation
    \/ ClearHistory

Spec == Init /\ [][Next]_vars

----------------------------------------------------------------------------
(* The sampler alone: the loop of lines 42-48 one iteration at a time and  *)
(* the sort of line 49, for every count and a range of generator states.   *)

InitSampler ==
    /\ InitApp
    /\ sampler \in {[pc |-> "loop", count |-> c, rng |-> s, drawn |-> <<>>, iter |-> 0] :
                       c \in Counts, s \in 0..(SamplerSeeds - 1)}

\* the iterations counted so far, up to MaxRepeats more than the count
CountIteration(iter, c) == IF iter < c + MaxRepeats THEN iter + 1 ELSE iter

\* one iteration of the while loop
SamplerIterate ==
    /\ sampler.pc = "loop"
    /\ Len(sampler.drawn) < sampler.count
    /\ sampler' = [sampler EXCEPT
                      !.rng = NextRandom(@),
                      !.drawn = LoopStep(@, Candidate(NextRandom(sampler.rng))),
                      !.iter = CountIteration(@, sampler.count)]
    /\ UNCHANGED appVars

\* the loop exits; line 49
SamplerSort ==
    /\ sampler.pc = "loop"
    /\ Len(sampler.drawn) >= sampler.count
    /\ sampler' = [sampler EXCEPT !.pc = "done", !.drawn = SortAsc(@)]
    /\ UNCHANGED appVars

NextSampler == SamplerIterate \/ SamplerSort

SamplerSpec == InitSampler /\ [][NextSampler]_vars

----------------------------------------------------------------------------
(* The sampler fed any stream of candidates: between two outputs of the    *)
(* generator Math.random may return, any number of times, a candidate that *)
(* was already drawn.  The generator runs through every value of 1..60, so *)
(* that every value is eventually offered means that its next output       *)
(* eventually is; and the loop, once its condition fails, exits.           *)

\* one iteration of the while loop on a candidate drawn before
SamplerRepeat ==
    /\ sampler.pc = "loop"
    /\ Len(sampler.drawn) < sampler.count
    /\ \E num \in Range(sampler.drawn) :
          sampler' = [sampler EXCEPT
                         !.drawn = LoopStep(@, num),
                         !.iter = CountIteration(@, sampler.count)]
    /\ UNCHANGED appVars

NextFairSampler == SamplerIterate \/ SamplerRepeat \/ SamplerSort

FairSamplerSpec ==
    /\ InitSampler
    /\ [][NextFairSampler]_vars
    /\ WF_vars(SamplerIterate)
    /\ WF_vars(SamplerSort)

----------------------------------------------------------------------------
(* The ledger: draws of both modes and clears, up to LedgerDraws results   *)
(* since the last clear, with the history panel open.                     *)

LedgerSeeds == {0}

InitLedger == InitState(TRUE) /\ sampler = IdleSampler

NextLedger ==
    \/ SetActiveTabDraw
    \/ SetActiveTabAI
    \/ DrawNumbers(LedgerDraws)
    \/ TimeoutFires(LedgerSeeds)
    \/ GenerateAIPrediction(LedgerDraws)
    \/ PredictorResponds({"good", "failed"})
    \/ AIContinuation
    \/ ClearHistory

LedgerSpec == InitLedger /\ [][NextLedger]_vars

----------------------------------------------------------------------------
(* The widget under the scheduling of the host: a pending timer callback   *)
(* runs, and the continuation of a settled await runs.  Nothing makes the  *)
(* Predictor answer.  The count stays as it starts.                        *)

NextFair ==
    \/ SetActiveTabDraw
    \/ SetActiveTabAI
    \/ ToggleHistory
    \/ DrawNumbers(FairDraws)
    \/ TimeoutFires(LedgerSeeds)
    \/ GenerateAIPrediction(FairDraws)
    \/ PredictorResponds(ReplyClasses)
    \/ AIContinuation
    \/ ClearHistory

FairSpec ==
    /\ Init
    /\ [][NextFair]_vars
    /\ WF_vars(TimeoutFires(LedgerSeeds))
    /\ WF_vars(AIContinuation)

----------------------------------------------------------------------------
(* Steps, as seen in the state *)

InRange(s) == \A i \in 1..Len(s) : s[i] \in 1..RangeSize

ValidNumbers(s, c) == Len(s) = c /\ IsDistinct(s) /\ InRange(s) /\ IsAscending(s)

\* the callback of a local draw runs
LocalSettles == Len(timers') < Len(timers)

\* the continuation of request i runs
Continues(i) == i \in 1..Len(requests) /\ requests' = RemoveAt(requests, i)

HasArray(reply) ==
    /\ reply.status = "fulfilled"
    /\ reply.text.kind = "object"
    /\ reply.text.numbers.kind = "array"

\* the call threw, the text does not parse, or there is no numbers array
IsFailure(reply) == reply # Pending /\ ~HasArray(reply)

\* exactly one entry is put in front of the history
PutsInFront ==
    /\ Len(history') >= 1
    /\ Len(log') = Len(log) + 1
    /\ history' = Take(<<Head(history')>> \o history, HistoryCap)

----------------------------------------------------------------------------
(* Claims *)

\* C1: for every count in 6..10 and every stream of candidates, a completed
\* local draw has exactly count numbers, pairwise distinct, each in 1..60,
\* in ascending order.
C1_SampleIsValid ==
    sampler.pc = "done" => ValidNumbers(sampler.drawn, sampler.count)

\* a draw of ten numbers completed after rejecting a candidate
C1_Witness ==
    /\ sampler.pc = "done"
    /\ sampler.count = MaxCount
    /\ sampler.iter > sampler.count

\* C2: the history never holds more than 10 entries, and it is the (up to) 10
\* most recent results appended since the last clear, newest first.
C2_LedgerIsRecentTen ==
    /\ Len(history) <= HistoryCap
    /\ history = Entries(Take(log, HistoryCap))

\* an eleventh result was appended and the oldest, a local one, was dropped
C2_Witness ==
    /\ Len(log) > HistoryCap
    /\ Len(history) = HistoryCap
    /\ log[Len(log)].type = "manual"
    /\ history[1].type = "ai"

\* C3: every entry of the history has pairwise distinct numbers, each in
\* 1..60, in ascending order, as many as the count its draw was requested with.
C3_EntriesValid ==
    \A i \in 1..Len(history) :
        i <= Len(log) => ValidNumbers(history[i].numbers, log[i].requested)

\* C4: an external draw whose response carries a numbers array with a
\* duplicate, a wrong length or a value outside 1..60 ends with an error
\* recorded and appends nothing to the history.
C4_InvalidRejected ==
    [][\A i \in 1..Len(requests) :
          (/\ Continues(i)
           /\ HasArray(requests[i].reply)
           /\ ~ValidNumbers(SortAsc(requests[i].reply.text.numbers.items),
                            requests[i].count))
          => (aiError' = ErrorMessage /\ history' = history)]_vars

\* C5: when the call throws, the payload does not parse or it has no numbers
\* array, the continuation leaves the history as it is, records the error
\* message and clears isGeneratingAI.
C5_FailureKeepsLedger ==
    [][\A i \in 1..Len(requests) :
          (Continues(i) /\ IsFailure(requests[i].reply))
          => (/\ history' = history
              /\ aiError' = ErrorMessage
              /\ isGeneratingAI' = FALSE)]_vars

\* a failed external draw behind a non-empty history
C5_Witness ==
    /\ aiError = ErrorMessage
    /\ ~isGeneratingAI
    /\ requests = <<>>
    /\ Len(history) >= 1

\* C6: a local draw cannot be requested while one is in flight: at most one
\* callback is pending, isDrawing is set exactly while it is, and so two
\* requests without awaiting the first leave one callback and one entry.
C6_OneLocalDrawPending ==
    /\ Len(timers) <= 1
    /\ isDrawing <=> timers # <<>>

\* a local draw in flight with the draw tab shown
C6_Witness ==
    /\ activeTab = "draw"
    /\ isDrawing
    /\ Len(timers) = 1
    /\ Len(history) >= 1

\* C7: across both modes no draw starts while any draw is in flight: never
\* are a local draw pending and an external request outstanding together.
C7_OneDrawInFlight ==
    /\ ~(isDrawing /\ isGeneratingAI)
    /\ Len(timers) + Len(requests) <= 1

\* C8: every successful draw puts exactly one entry in front of the history
\* in the step that sets the displayed numbers; the entry's numbers are the
\* ascending sort of the numbers produced and equal the displayed numbers,
\* and its type is 'manual' for a local and 'ai' for an external draw.
C8_SuccessAppendsFront ==
    [][/\ LocalSettles =>
            /\ PutsInFront
            /\ numbers' = Head(history').numbers
            /\ IsAscending(numbers')
            /\ SameElements(numbers', Head(log').raw)
            /\ Len(numbers') = Head(timers).count
            /\ Head(history').type = "manual"
       /\ \A i \in 1..Len(requests) :
            (Continues(i) /\ HasArray(requests[i].reply)) =>
                /\ PutsInFront
                /\ numbers' = Head(history').numbers
                /\ IsAscending(numbers')
                /\ SameElements(numbers', requests[i].reply.text.numbers.items)
                /\ Head(history').type = "ai"]_vars

\* the response {numbers: [7,2,9,15,3,41], reasoning: "lucky"} settled on top
\* of a local draw
C8_Witness ==
    /\ Len(history) >= 2
    /\ history[1] = DrawResult(<<2, 3, 7, 9, 15, 41>>, "ai")
    /\ history[2].type = "manual"
    /\ numbers = history[1].numbers
    /\ aiPrediction = Prediction(numbers, "lucky")

\* C9: a step that empties the history changes nothing else, every other
\* change of the history is the append of a settling draw, and a step that
\* changes the count, the tab or the history panel leaves the history alone.
C9_LedgerFrame ==
    [][/\ (history' # history /\ history' = <<>>) =>
            UNCHANGED <<activeTab, numbers, isDrawing, count, showHistory,
                        aiPrediction, isGeneratingAI, aiError, timers, requests>>
       /\ (history' # history /\ history' # <<>>) =>
            /\ PutsInFront
            /\ \/ LocalSettles
               \/ \E i \in 1..Len(requests) : Continues(i)
       /\ (count' # count \/ activeTab' # activeTab \/ showHistory' # showHistory) =>
            history' = history]_vars

\* the history was cleared with a result displayed and both draws in flight
C9_Witness ==
    /\ history = <<>>
    /\ numbers # <<>>
    /\ isDrawing
    /\ isGeneratingAI

\* C10: a pending callback runs and clears isDrawing, the continuation of a
\* settled call runs and clears isGeneratingAI, a failure issues no request
\* and schedules no callback, and with the flag clear the button of the
\* shown tab starts a draw.
C10_FlagsEventuallyCleared ==
    /\ isDrawing ~> ~isDrawing
    /\ (isGeneratingAI /\ \E i \in 1..Len(requests) : requests[i].reply # Pending)
          ~> ~isGeneratingAI
    /\ [][\A i \in 1..Len(requests) :
             (Continues(i) /\ IsFailure(requests[i].reply)) =>
                 /\ ~isGeneratingAI'
                 /\ timers' = timers]_vars
    /\ [](Len(log) + InFlight < FairDraws =>
             /\ (activeTab = "draw" /\ ~isDrawing) => ENABLED DrawNumbers(FairDraws)
             /\ (activeTab = "ai" /\ ~isGeneratingAI) =>
                    ENABLED GenerateAIPrediction(FairDraws))

\* after a failed external draw the AI button is enabled again
C10_Witness ==
    /\ aiError = ErrorMessage
    /\ activeTab = "ai"
    /\ ~isGeneratingAI
    /\ requests = <<>>
    /\ ENABLED GenerateAIPrediction(FairDraws)

\* a click on either tab button
TabClick == SetActiveTabDraw \/ SetActiveTabAI

\* C11: a result that arrives after a tab button was clicked while its draw
\* was in flight changes neither the displayed numbers, nor the rationale,
\* nor the history.
C11_StaleDiscarded ==
    [][/\ (LocalSettles /\ Head(timers).reset) =>
            UNCHANGED <<numbers, aiPrediction, history>>
       /\ \A i \in 1..Len(requests) :
            (Continues(i) /\ requests[i].reset) =>
                UNCHANGED <<numbers, aiPrediction, history>>]_vars

\* C12: a click on a tab button clears the displayed numbers and the
\* rationale, leaves the history as it is, and leaves no draw in flight and
\* no error recorded.
C12_ResetToIdle ==
    [][TabClick =>
          /\ numbers' = <<>>
          /\ aiPrediction' = NoPrediction
          /\ history' = history
          /\ ~isDrawing'
          /\ ~isGeneratingAI'
          /\ aiError' = NoError]_vars

\* C13: a rationale is never set beside the numbers of a local draw: when
\* aiPrediction is set and numbers are displayed, they are its numbers.
C13_RationaleOnlyExternal ==
    (aiPrediction.present /\ numbers # <<>>) => numbers = aiPrediction.numbers

\* C14: a draw request of either mode clears the recorded error.
C14_RequestLeavesFailed ==
    [][(Len(timers') > Len(timers) \/ Len(requests') > Len(requests)) =>
          aiError' = NoError]_vars

\* C15: for every count in 6..10, when every value is eventually offered the
\* rejection loop collects count values and exits; an iteration adds one
\* value that was not collected yet, or leaves the collected values as they
\* are.
C15_LoopTerminates ==
    /\ (sampler.pc = "loop") ~>
           (sampler.pc = "done" /\ Len(sampler.drawn) = sampler.count)
    /\ [][(sampler.pc = "loop" /\ sampler'.pc = "loop") =>
             \/ sampler'.drawn = sampler.drawn
             \/ /\ Len(sampler'.drawn) = Len(sampler.drawn) + 1
                /\ SubSeq(sampler'.drawn, 1, Len(sampler.drawn)) = sampler.drawn
                /\ sampler'.drawn[Len(sampler'.drawn)] \notin Range(sampler.drawn)]_vars

\* a draw of ten numbers that exited after MaxRepeats or more rejections
C15_Witness ==
    /\ sampler.pc = "done"
    /\ sampler.count = MaxCount
    /\ Len(sampler.drawn) = MaxCount
    /\ sampler.iter >= sampler.count + MaxRepeats

\* C16: a local draw uses the count selected when it was requested: the
\* callback is scheduled with the count of that moment, and its numbers and
\* its history entry have that length whatever the count is when it runs.
C16_CountAtRequest ==
    [][/\ Len(timers') > Len(timers) =>
            timers'[Len(timers')].count = count
       /\ LocalSettles =>
            /\ timers' = Tail(timers)
            /\ Len(numbers') = Head(timers).count
            /\ Len(Head(history').numbers) = Head(timers).count]_vars

\* a local draw requested with one count settled while another was selected
C16_Witness ==
    /\ ~isDrawing
    /\ Len(log) >= 1
    /\ log[1].type = "manual"
    /\ history[1].numbers = numbers
    /\ Len(numbers) = log[1].requested
    /\ log[1].requested = MinCount
    /\ log[1].selected = MaxCount

============================================================================
